---- MODULE Spec2Model ----
(***************************************************************************)
(* A model of the SafarSorted inquiry API (src/server.js): the JSON file   *)
(* store, the in-memory rate limiter, the Basic-auth check of the listing  *)
(* route and the five request handlers.                                    *)
(*                                                                         *)
(* Strings are sequences of symbols (one-character strings, or a chunk     *)
(* that holds none of the separators ' ' and ':').  A JavaScript value is  *)
(* a record [t, s, n]: its type tag, its symbols when a string and its     *)
(* number when a number.                                                   *)
(***************************************************************************)
EXTENDS Integers, Sequences, FiniteSets, TLC

\* ------------------------------------------------------------------------
\* Bounds of the model
\* ------------------------------------------------------------------------

\* Most inquiries ever created in one behaviour (a cap on lastId).
MaxInq == 2

\* Most calls the limiter admits in one behaviour of the store-centred
\* specifications (the limiter-centred one runs the window full).
MaxCalls == 2

\* Most records of a document that exists before the server starts.
MaxStored == 3

\* ------------------------------------------------------------------------
\* Program constants
\* ------------------------------------------------------------------------

RateLimit == 30

WindowMs == 60000

PhoneMinDigits == 10

PhoneMaxDigits == 15

WeekMs == 7 * 24 * 60 * 60 * 1000

\* ------------------------------------------------------------------------
\* JavaScript values
\* ------------------------------------------------------------------------

Undef == [t |-> "undefined", s |-> <<>>, n |-> 0]

Null == [t |-> "null", s |-> <<>>, n |-> 0]

NaN == [t |-> "nan", s |-> <<>>, n |-> 0]

Str(cs) == [t |-> "string", s |-> cs, n |-> 0]

Num(k) == [t |-> "number", s |-> <<>>, n |-> k]

\* ToBoolean: undefined, null, NaN, 0 and "" are falsy.
Truthy(v) ==
    CASE v.t = "string" -> v.s # <<>>
      [] v.t = "number" -> v.n # 0
      [] OTHER -> FALSE

\* a || b
OrElse(a, b) == IF Truthy(a) THEN a ELSE b

Digits == <<"0", "1", "2", "3", "4", "5", "6", "7", "8", "9">>

IsDigit(c) == \E d \in 1..10 : Digits[d] = c

DigitVal(c) == (CHOOSE d \in 1..10 : Digits[d] = c) - 1

\* \s of a regular expression, and the white space parseInt skips.
IsSpace(c) == c \in {" ", "\t"}

RECURSIVE DigitsOf(_)
\* The decimal symbols of a natural number.
DigitsOf(k) ==
    IF k < 10 THEN <<Digits[k + 1]>>
    ELSE Append(DigitsOf(k \div 10), Digits[(k % 10) + 1])

\* String(v), for the values parseInt is given.
ToStr(v) ==
    CASE v.t = "string" -> v.s
      [] v.t = "number" -> DigitsOf(v.n)
      [] OTHER -> <<v.t>>

RECURSIVE SkipSpace(_)
SkipSpace(cs) ==
    IF cs # <<>> /\ IsSpace(Head(cs)) THEN SkipSpace(Tail(cs)) ELSE cs

RECURSIVE DigitPrefix(_, _, _)
\* The number the leading digits of cs spell, NaN when there is none.
DigitPrefix(cs, acc, seen) ==
    IF cs # <<>> /\ IsDigit(Head(cs))
    THEN DigitPrefix(Tail(cs), acc * 10 + DigitVal(Head(cs)), TRUE)
    ELSE IF seen THEN Num(acc) ELSE NaN

\* parseInt(v): leading white space is skipped, the longest digit prefix is
\* the result, NaN when there is none.
ParseInt(v) == DigitPrefix(SkipSpace(ToStr(v)), 0, FALSE)

\* a === b for the values the handlers compare
StrictEq(a, b) == a.t # "nan" /\ b.t # "nan" /\ a = b

\* JSON.parse(JSON.stringify(v)): NaN is written as null.
JsonValue(v) == IF v.t = "nan" THEN Null ELSE v

\* phone.replace(/\s/g, '')
RECURSIVE StripSpace(_)
StripSpace(cs) ==
    IF cs = <<>> THEN <<>>
    ELSE IF IsSpace(Head(cs)) THEN StripSpace(Tail(cs))
    ELSE <<Head(cs)>> \o StripSpace(Tail(cs))

\* Mutant: the upper limit of the repetition off by one, {10,16}.
PhoneOkUpTo16(cs) ==
    LET body == IF cs # <<>> /\ Head(cs) = "+" THEN Tail(cs) ELSE cs
    IN  /\ Len(body) >= PhoneMinDigits
        /\ Len(body) <= PhoneMaxDigits + 1
        /\ \A i \in 1..Len(body) : IsDigit(body[i])

\* /^[\+]?[0-9]{10,15}$/.test(cs)
PhoneOk(cs) ==
    LET body == IF cs # <<>> /\ Head(cs) = "+" THEN Tail(cs) ELSE cs
    IN  /\ Len(body) >= PhoneMinDigits
        /\ Len(body) <= PhoneMaxDigits
        /\ \A i \in 1..Len(body) : IsDigit(body[i])

RECURSIVE SplitAt(_, _, _)
\* cs.split(sep): every piece between separators, in order.
SplitAt(cs, sep, piece) ==
    IF cs = <<>> THEN <<piece>>
    ELSE IF Head(cs) = sep THEN <<piece>> \o SplitAt(Tail(cs), sep, <<>>)
    ELSE SplitAt(Tail(cs), sep, Append(piece, Head(cs)))

Split(cs, sep) == SplitAt(cs, sep, <<>>)

\* arr[i] of a split, undefined past the end (i counts from 0).
PieceAt(pieces, i) == IF i < Len(pieces) THEN Str(pieces[i + 1]) ELSE Undef

StartsWith(cs, prefix) ==
    /\ Len(cs) >= Len(prefix)
    /\ SubSeq(cs, 1, Len(prefix)) = prefix

\* new Date(ms).toISOString(): the instant written out as seconds and
\* milliseconds; new Date(iso).getTime() reads it back.
ToISOString(ms) == [sec |-> ms \div 1000, msec |-> ms % 1000]

DateParse(iso) == iso.sec * 1000 + iso.msec

\* ------------------------------------------------------------------------
\* The store document and the file that holds it
\* ------------------------------------------------------------------------

EmptyDoc == [inquiries |-> <<>>, lastId |-> 0]

StatusNew == Str(<<"new">>)

\* The inquiry record the submit handler builds.
NewInquiry(id, body, cleanPhone, t) ==
    [id |-> id,
     name |-> body.name,
     phone |-> Str(cleanPhone),
     email |-> OrElse(body.email, Str(<<>>)),
     travelers |-> ParseInt(body.travelers),
     destination |-> body.destination,
     travel_date |-> OrElse(body.travelDate, Null),
     traveler_type |-> OrElse(body.travelerType, Null),
     message |-> OrElse(body.message, Str(<<>>)),
     status |-> StatusNew,
     notes |-> Null,
     created_at |-> ToISOString(t),
     updated_at |-> ToISOString(t)]

\* An inquiry as JSON.stringify writes it and JSON.parse reads it back.
JsonInquiry(q) ==
    [q EXCEPT !.name = JsonValue(@), !.phone = JsonValue(@),
              !.email = JsonValue(@), !.travelers = JsonValue(@),
              !.destination = JsonValue(@), !.travel_date = JsonValue(@),
              !.traveler_type = JsonValue(@), !.message = JsonValue(@),
              !.status = JsonValue(@), !.notes = JsonValue(@)]

JsonDoc(doc) ==
    [inquiries |-> [i \in 1..Len(doc.inquiries) |-> JsonInquiry(doc.inquiries[i])],
     lastId |-> doc.lastId]

\* The file after writeData(doc).
Written(doc) == [kind |-> "doc", doc |-> JsonDoc(doc)]

\* A data file that does not hold a document:
\*   "missing"     there is no file (readFileSync throws ENOENT);
\*   "garbage"     its text is not JSON, as an empty or a truncated file
\*                 (JSON.parse throws SyntaxError);
\*   "unreadable"  it may be written but not read (readFileSync throws EACCES);
\*   "other"       its text is JSON without an inquiries array, as {} or null
\*                 (JSON.parse returns it).
BrokenKinds == {"missing", "garbage", "unreadable", "other"}

Broken(kind) == [kind |-> kind, doc |-> EmptyDoc]

\* The file after writeFileSync on the file old: a file that may not be
\* read stays so.
WrittenOver(old, doc) ==
    IF old.kind = "unreadable" THEN [kind |-> "unreadable", doc |-> JsonDoc(doc)]
    ELSE Written(doc)

\* The ids of a document's inquiries, as a set.
Ids(doc) == {doc.inquiries[i].id : i \in 1..Len(doc.inquiries)}

\* ------------------------------------------------------------------------
\* Requests and responses
\* ------------------------------------------------------------------------

NoBody ==
    [name |-> Undef, phone |-> Undef, travelers |-> Undef, destination |-> Undef,
     travelDate |-> Undef, travelerType |-> Undef, email |-> Undef,
     message |-> Undef, status |-> Undef, notes |-> Undef]

NoStats == [total |-> 0, new |-> 0, contacted |-> 0, booked |-> 0, thisWeek |-> 0]

\* A request, and the instant at which it was handled.
RequestAt(route, ip, body, id, auth, t) ==
    [route |-> route, ip |-> ip, body |-> body, id |-> id, auth |-> auth, at |-> t]

NoRequest == RequestAt("none", "", NoBody, <<>>, Undef, 0)

\* res.status(status).json(...): the fields a response does not carry are
\* at their defaults.
Reply(route, status, error) ==
    [route |-> route, status |-> status, error |-> error, id |-> 0,
     inquiries |-> <<>>, inquiry |-> <<>>, stats |-> NoStats]

NoReply == Reply("none", 0, "")

\* What a handler does to the document it read: the document it holds at
\* its end, whether it calls writeData with it, and its response.
Effect(write, doc, reply) == [write |-> write, doc |-> doc, resp |-> reply]

\* ------------------------------------------------------------------------
\* State
\* ------------------------------------------------------------------------

VARIABLES
    file,            \* data/inquiries.json
    rateLimitStore,  \* the limiter's Map: ip -> instants of the admitted calls
    now,             \* the clock
    env,             \* process.env: ADMIN_USER and ADMIN_PASS
    inflight,        \* per handler invocation: the document it read and has not written back
    req,             \* the last request handled
    resp,            \* its response
    pre,             \* the file as it was before that request
    wrote,           \* whether that request called writeData
    issued,          \* history: the ids returned with a 201, in order
    deleted,         \* history: the ids whose DELETE was answered 200
    expected,        \* history: id -> status, of the inquiries accepted and not deleted
    rejectMsgs,      \* history: the error messages of the listing's 401 responses
    hist,            \* history: ip -> instants of every call the limiter admitted
    denied           \* history: ip -> the instants at which the limiter rejected a call

progVars == <<file, rateLimitStore, now, env, inflight>>

obsVars == <<req, resp, pre, wrote>>

histVars == <<issued, deleted, expected, rejectMsgs, hist, denied>>

vars == <<file, rateLimitStore, now, env, inflight, req, resp, pre, wrote,
          issued, deleted, expected, rejectMsgs, hist, denied>>

\* ------------------------------------------------------------------------
\* POST /api/inquiry
\* ------------------------------------------------------------------------

\* Mutant: the id taken from the number of stored inquiries.
NextIdByCount(doc) == Len(doc.inquiries) + 1

\* Mutant: the counter advanced twice.
NextIdSkip(doc) == doc.lastId + 2

\* data.lastId++ : the id the new inquiry gets.
NextId(doc) == doc.lastId + 1

\* Mutant: the check of travelers left out.
MissingRequiredButTravelers(body) ==
    \/ ~Truthy(body.name)
    \/ ~Truthy(body.phone)
    \/ ~Truthy(body.destination)

MissingRequired(body) ==
    \/ ~Truthy(body.name)
    \/ ~Truthy(body.phone)
    \/ ~Truthy(body.travelers)
    \/ ~Truthy(body.destination)

SubmitEffect(doc, body, t) ==
    IF MissingRequired(body)
    THEN Effect(FALSE, doc, Reply("submit", 400, "Missing required fields"))
    ELSE IF body.phone.t # "string"
    \* phone.replace is not a function: the TypeError is caught
    THEN Effect(FALSE, doc, Reply("submit", 500, "Failed to submit inquiry"))
    ELSE IF ~PhoneOk(StripSpace(body.phone.s))
    THEN Effect(FALSE, doc, Reply("submit", 400, "Invalid phone number"))
    ELSE LET id == NextId(doc)
             inquiry == NewInquiry(id, body, StripSpace(body.phone.s), t)
         IN  Effect(TRUE,
                    [inquiries |-> Append(doc.inquiries, inquiry), lastId |-> id],
                    [Reply("submit", 201, "") EXCEPT !.id = inquiry.id])

\* ------------------------------------------------------------------------
\* PUT /api/admin/inquiries/:id
\* ------------------------------------------------------------------------

\* data.inquiries.find(i => i.id === parseInt(id)): the index of the first
\* match, 0 when there is none.
FindIndex(doc, idParam) ==
    LET target == ParseInt(Str(idParam))
        hits == {i \in 1..Len(doc.inquiries) :
                    StrictEq(Num(doc.inquiries[i].id), target)}
    IN  IF hits = {} THEN 0 ELSE CHOOSE i \in hits : \A j \in hits : i <= j

\* Mutant: status and notes assigned whatever the request holds.
UpdatedOverwrite(q, body, t) ==
    [q EXCEPT !.status = body.status, !.notes = body.notes,
              !.updated_at = ToISOString(t)]

\* Mutant: notes replaced only by a truthy value, as status is.
UpdatedNotesIfTruthy(q, body, t) ==
    [q EXCEPT !.status = OrElse(body.status, q.status),
              !.notes = OrElse(body.notes, q.notes),
              !.updated_at = ToISOString(t)]

\* The three assignments to the inquiry found.
Updated(q, body, t) ==
    [q EXCEPT !.status = OrElse(body.status, q.status),
              !.notes = IF body.notes.t # "undefined" THEN body.notes ELSE q.notes,
              !.updated_at = ToISOString(t)]

\* Mutant: the update is answered but writeData is not called.
UpdateEffectNoWrite(doc, idParam, body, t) ==
    LET i == FindIndex(doc, idParam)
    IN  IF i # 0
        THEN Effect(FALSE, doc,
                    [Reply("update", 200, "") EXCEPT
                        !.inquiry = <<JsonInquiry(Updated(doc.inquiries[i], body, t))>>])
        ELSE Effect(FALSE, doc, Reply("update", 404, "Inquiry not found"))

UpdateEffect(doc, idParam, body, t) ==
    LET i == FindIndex(doc, idParam)
    IN  IF i # 0
        THEN LET inquiry == Updated(doc.inquiries[i], body, t)
                 data == [doc EXCEPT !.inquiries[i] = inquiry]
             IN  Effect(TRUE, data,
                        [Reply("update", 200, "") EXCEPT !.inquiry = <<JsonInquiry(inquiry)>>])
        ELSE Effect(FALSE, doc, Reply("update", 404, "Inquiry not found"))

\* ------------------------------------------------------------------------
\* DELETE /api/admin/inquiries/:id
\* ------------------------------------------------------------------------

\* data.inquiries.filter(i => i.id !== parseInt(id))
Remaining(doc, idParam) ==
    SelectSeq(doc.inquiries,
              LAMBDA q : ~StrictEq(Num(q.id), ParseInt(Str(idParam))))

\* Mutant: writeData is called whether or not anything was removed.
DeleteEffectAlwaysWrites(doc, idParam) ==
    LET data == [doc EXCEPT !.inquiries = Remaining(doc, idParam)]
    IN  IF Len(data.inquiries) < Len(doc.inquiries)
        THEN Effect(TRUE, data, Reply("delete", 200, ""))
        ELSE Effect(TRUE, data, Reply("delete", 404, "Inquiry not found"))

DeleteEffect(doc, idParam) ==
    LET data == [doc EXCEPT !.inquiries = Remaining(doc, idParam)]
    IN  IF Len(data.inquiries) < Len(doc.inquiries)
        THEN Effect(TRUE, data, Reply("delete", 200, ""))
        ELSE Effect(FALSE, data, Reply("delete", 404, "Inquiry not found"))

\* ------------------------------------------------------------------------
\* GET /api/admin/inquiries
\* ------------------------------------------------------------------------

\* An environment that sets neither variable.
NoEnv == [ADMIN_USER |-> Undef, ADMIN_PASS |-> Undef]

\* process.env.ADMIN_USER || 'Mehul20020', process.env.ADMIN_PASS || 'Ninja2002@'
AdminUser == OrElse(env.ADMIN_USER, Str(<<"Mehul20020">>))

AdminPass == OrElse(env.ADMIN_PASS, Str(<<"Ninja2002@">>))

\* Buffer.from(text, 'base64').toString('ascii') on the payloads the model
\* sends; any other text decodes to no symbols.
B64Decode(text) ==
    CASE text = <<"TWVodWwyMDAyMDpOaW5qYTIwMDJA">> ->
            <<"Mehul20020", ":", "Ninja2002@">>
      [] text = <<"TWVodWwyMDAyMDp3cm9uZw==">> ->
            <<"Mehul20020", ":", "wrong">>
      [] text = <<"YWRtaW46TmluamEyMDAyQA==">> ->
            <<"admin", ":", "Ninja2002@">>
      [] text = <<"TWVodWwyMDAyMDpOaW5qYTIwMDJAOmV4dHJh">> ->
            <<"Mehul20020", ":", "Ninja2002@", ":", "extra">>
      [] text = <<"TWVodWwyMDAyMA==">> ->
            <<"Mehul20020">>
      [] text = <<"YWRtaW46cGE6c3M=">> ->
            <<"admin", ":", "pa", ":", "ss">>
      [] text = <<"YWRtaW46cGE=">> ->
            <<"admin", ":", "pa">>
      [] text = <<"Og==">> ->
            <<":">>
      [] OTHER -> <<>>

\* Mutant: the comparator's operands exchanged (oldest first).
CompareAscending(a, b) == DateParse(a.created_at) - DateParse(b.created_at)

\* (a, b) => new Date(b.created_at) - new Date(a.created_at)
Compare(a, b) == DateParse(b.created_at) - DateParse(a.created_at)

\* q placed into a sorted sequence behind everything that does not come
\* after it (Array.prototype.sort is stable: ties keep their order).
InsertSorted(sorted, q) ==
    LET later == {i \in 1..Len(sorted) : Compare(sorted[i], q) > 0}
        at == IF later = {} THEN Len(sorted) + 1
              ELSE CHOOSE i \in later : \A j \in later : i <= j
    IN  SubSeq(sorted, 1, at - 1) \o <<q>> \o SubSeq(sorted, at, Len(sorted))

RECURSIVE SortFrom(_, _)
SortFrom(rest, sorted) ==
    IF rest = <<>> THEN sorted
    ELSE SortFrom(Tail(rest), InsertSorted(sorted, Head(rest)))

\* data.inquiries.sort(...)
Sorted(inquiries) == SortFrom(inquiries, <<>>)

\* The result of the credential check: "ok", or the message of the 401.
AuthCheck(auth) ==
    IF ~Truthy(auth) \/ ~StartsWith(auth.s, <<"Basic", " ">>)
    THEN "Unauthorized"
    ELSE LET base64Credentials == PieceAt(Split(auth.s, " "), 1)
             credentials == Split(B64Decode(base64Credentials.s), ":")
             username == PieceAt(credentials, 0)
             password == PieceAt(credentials, 1)
         IN  IF ~StrictEq(username, AdminUser) \/ ~StrictEq(password, AdminPass)
             THEN "Invalid credentials"
             ELSE "ok"

\* Mutant: the listing writes the document back after sorting it in place.
ListEffectPersistsSort(doc, auth) ==
    IF AuthCheck(auth) # "ok"
    THEN Effect(FALSE, doc, Reply("list", 401, AuthCheck(auth)))
    ELSE Effect(TRUE, [doc EXCEPT !.inquiries = Sorted(doc.inquiries)],
                [Reply("list", 200, "") EXCEPT !.inquiries = Sorted(doc.inquiries)])

\* The listing never calls writeData: the sorted array is only sent.
ListEffect(doc, auth) ==
    IF AuthCheck(auth) # "ok"
    THEN Effect(FALSE, doc, Reply("list", 401, AuthCheck(auth)))
    ELSE Effect(FALSE, doc,
                [Reply("list", 200, "") EXCEPT !.inquiries = Sorted(doc.inquiries)])

\* ------------------------------------------------------------------------
\* GET /api/admin/stats, GET /api/health
\* ------------------------------------------------------------------------

\* data.inquiries.filter(i => i.status === literal).length
CountStatus(inquiries, literal) ==
    Len(SelectSeq(inquiries, LAMBDA q : StrictEq(q.status, Str(<<literal>>))))

\* Mutant: a record created exactly 7 days ago left out of thisWeek.
StatsOfStrictWeek(doc, t) ==
    [total |-> Len(doc.inquiries),
     new |-> CountStatus(doc.inquiries, "new"),
     contacted |-> CountStatus(doc.inquiries, "contacted"),
     booked |-> CountStatus(doc.inquiries, "booked"),
     thisWeek |-> Len(SelectSeq(doc.inquiries,
                                LAMBDA q : DateParse(q.created_at) > t - WeekMs))]

StatsOf(doc, t) ==
    [total |-> Len(doc.inquiries),
     new |-> CountStatus(doc.inquiries, "new"),
     contacted |-> CountStatus(doc.inquiries, "contacted"),
     booked |-> CountStatus(doc.inquiries, "booked"),
     thisWeek |-> Len(SelectSeq(doc.inquiries,
                                LAMBDA q : DateParse(q.created_at) >= t - WeekMs))]

StatsEffect(doc, t) ==
    Effect(FALSE, doc, [Reply("stats", 200, "") EXCEPT !.stats = StatsOf(doc, t)])

HealthEffect(doc) == Effect(FALSE, doc, Reply("health", 200, ""))

\* ------------------------------------------------------------------------
\* The rate limiter
\* ------------------------------------------------------------------------

\* rateLimitStore.get(ip) || []
RequestsOf(table, ip) == IF ip \in DOMAIN table THEN table[ip] ELSE <<>>

\* requests.filter(time => now - time < 60000)
RecentRequests(requests, t) == SelectSeq(requests, LAMBDA time : t - time < WindowMs)

\* Mutant: the comparison with the limit off by one.
AdmitsOneMore(table, ip, t) ==
    Len(RecentRequests(RequestsOf(table, ip), t)) <= RateLimit

\* Whether apiLimiter calls next() for this client at instant t.
Admits(table, ip, t) == Len(RecentRequests(RequestsOf(table, ip), t)) < RateLimit

\* Mutant: the instant of the call is pushed before the limit is checked,
\* so a rejected call is recorded too.
LimitedRecordsRejected(table, ip, t) ==
    [k \in DOMAIN table \cup {ip} |->
        IF k = ip THEN Append(RecentRequests(RequestsOf(table, ip), t), t)
        ELSE table[k]]

\* rateLimitStore after apiLimiter ran: a rejected call leaves it as it is.
Limited(table, ip, t) ==
    IF Admits(table, ip, t)
    THEN [k \in DOMAIN table \cup {ip} |->
            IF k = ip THEN Append(RecentRequests(RequestsOf(table, ip), t), t)
            ELSE table[k]]
    ELSE table

TooMany == Reply("submit", 429, "Too many requests, please try again later.")

\* ------------------------------------------------------------------------
\* The requests the environment sends
\* ------------------------------------------------------------------------

IPs == {"10.0.0.1", "10.0.0.2"}

\* The instant the server starts, in ms.
StartMs == 2 * WeekMs

\* The instants at which the clock is read.
ClockPoints == {StartMs, StartMs + WindowMs - 1, StartMs + WindowMs + 1000}

Phone10 == <<"9", "8", "7", "6", "5", "4", "3", "2", "1", "0">>

PhoneSpaced ==
    <<"+", "9", "1", " ", "9", "8", "7", "6", "5", " ", "4", "3", "2", "1", "0">>

PhoneShort == <<"1", "2", "3", "-", "4", "5", "6">>

ValidBody1 ==
    [NoBody EXCEPT !.name = Str(<<"Asha">>), !.phone = Str(Phone10),
                   !.travelers = Num(2), !.destination = Str(<<"Goa">>)]

ValidBody2 ==
    [NoBody EXCEPT !.name = Str(<<"Ravi">>), !.phone = Str(PhoneSpaced),
                   !.travelers = Str(<<"x">>), !.destination = Str(<<"Leh">>),
                   !.email = Str(<<"ravi@example.com">>),
                   !.travelDate = Str(<<"2026-01-05">>),
                   !.travelerType = Str(<<"family">>),
                   !.message = Str(<<"hello">>)]

\* A valid body with one required field absent, empty or zero.
MissingBodies ==
    {[ValidBody1 EXCEPT !.name = v] : v \in {Undef, Str(<<>>)}}
    \cup {[ValidBody1 EXCEPT !.phone = v] : v \in {Undef, Str(<<>>)}}
    \cup {[ValidBody1 EXCEPT !.travelers = v] : v \in {Undef, Num(0)}}
    \cup {[ValidBody1 EXCEPT !.destination = v] : v \in {Undef, Str(<<>>)}}
    \cup {NoBody, [ValidBody2 EXCEPT !.name = Undef, !.phone = Num(98765)]}

BadPhoneBodies ==
    {[ValidBody1 EXCEPT !.phone = Str(PhoneShort)],
     [ValidBody1 EXCEPT !.phone = Num(98765)]}

\* The bodies the store-centred environment posts.
SubmitBodies ==
    {ValidBody1, ValidBody2, [ValidBody1 EXCEPT !.phone = Str(PhoneShort)]}

\* {status?, notes?} of a PUT.
UpdateBodies ==
    {[NoBody EXCEPT !.status = Str(<<"contacted">>)],
     [NoBody EXCEPT !.notes = Str(<<"call back">>)],
     [NoBody EXCEPT !.notes = Null],
     [NoBody EXCEPT !.status = Str(<<>>), !.notes = Str(<<>>)]}

\* The :id of a PUT or DELETE, as the URL gives it.
IdParams == {<<"1">>, <<"2", "x">>, <<"x">>}

GoodAuth == Str(<<"Basic", " ", "TWVodWwyMDAyMDpOaW5qYTIwMDJA">>)

AuthHeaders ==
    {Undef,
     Str(<<"Bearer", " ", "TWVodWwyMDAyMDpOaW5qYTIwMDJA">>),
     GoodAuth,
     Str(<<"Basic", " ", "TWVodWwyMDAyMDp3cm9uZw==">>),
     Str(<<"Basic", " ", "YWRtaW46TmluamEyMDAyQA==">>),
     Str(<<"Basic", " ", "TWVodWwyMDAyMA==">>)}

\* ------------------------------------------------------------------------
\* Handler invocations and the start of the server
\* ------------------------------------------------------------------------

Slots == {1, 2}

Idle == [busy |-> FALSE, req |-> NoRequest, snap |-> EmptyDoc]

\* readData(): the document of the file, the empty document when it cannot
\* be read or parsed.
ReadData == IF file.kind = "doc" THEN file.doc ELSE EmptyDoc

\* The message of a handler's catch block.
Failure(route) ==
    CASE route = "submit" -> "Failed to submit inquiry"
      [] route = "list" -> "Failed to fetch inquiries"
      [] route = "update" -> "Failed to update inquiry"
      [] route = "delete" -> "Failed to delete inquiry"
      [] OTHER -> "Failed to fetch stats"

\* Whether a handler with this outcome got as far as its readData() call.
ReachesReadData(eff) ==
    /\ eff.resp.route # "health"
    /\ eff.resp.status \notin {400, 401, 429, 500}

\* What the handler's try/catch makes of its outcome on the file as it is:
\* when readData returned a value without an inquiries array, the first use
\* of data.inquiries throws TypeError and the catch block answers 500.
Caught(eff) ==
    IF ReachesReadData(eff) /\ file.kind = "other"
    THEN Effect(FALSE, eff.doc, Reply(eff.resp.route, 500, Failure(eff.resp.route)))
    ELSE eff

\* initDatabase() on a machine without a data file, and an empty limiter.
Init ==
    /\ file = Written(EmptyDoc)
    /\ rateLimitStore = << >>
    /\ now = StartMs
    /\ env = NoEnv
    /\ inflight = [s \in Slots |-> Idle]
    /\ req = NoRequest
    /\ resp = NoReply
    /\ pre = Written(EmptyDoc)
    /\ wrote = FALSE
    /\ issued = <<>>
    /\ deleted = {}
    /\ expected = << >>
    /\ rejectMsgs = {}
    /\ hist = [ip \in IPs |-> <<>>]
    /\ denied = [ip \in IPs |-> {}]

\* ------------------------------------------------------------------------
\* Handlers
\* ------------------------------------------------------------------------

\* The id a :id parameter names, 0 when it names none.
IdOf(idParam) ==
    LET v == ParseInt(Str(idParam)) IN IF v.t = "number" THEN v.n ELSE 0

\* The history after a request and its response.
Record(request, reply) ==
    /\ issued' = IF reply.route = "submit" /\ reply.status = 201
                 THEN Append(issued, reply.id) ELSE issued
    /\ deleted' = IF reply.route = "delete" /\ reply.status = 200
                  THEN deleted \cup {IdOf(request.id)} ELSE deleted
    /\ expected' =
         CASE reply.route = "submit" /\ reply.status = 201 ->
                [i \in DOMAIN expected \cup {reply.id} |->
                    IF i = reply.id THEN StatusNew ELSE expected[i]]
           [] reply.route = "delete" /\ reply.status = 200 ->
                [i \in DOMAIN expected \ {IdOf(request.id)} |-> expected[i]]
           [] reply.route = "update" /\ reply.status = 200
                /\ Truthy(request.body.status) ->
                [i \in DOMAIN expected |->
                    IF i = IdOf(request.id) THEN request.body.status ELSE expected[i]]
           [] OTHER -> expected
    /\ rejectMsgs' = IF reply.route = "list" /\ reply.status = 401
                     THEN rejectMsgs \cup {reply.error} ELSE rejectMsgs

\* A handler ran to its end: the file is rewritten if it called writeData,
\* and the response is sent.
Handle(request, eff) ==
    LET done == Caught(eff)
    IN  /\ file' = IF done.write THEN WrittenOver(file, done.doc) ELSE file
        /\ req' = request
        /\ resp' = done.resp
        /\ pre' = file
        /\ wrote' = done.write
        /\ env' = env
        /\ Record(request, done.resp)

\* Mutant: every route under /api/admin checks the credentials.
ProtectedAdmin(route) == route \in {"list", "update", "delete", "stats"}

\* The routes whose handler checks the Authorization header: the listing
\* does, and no other route has such a check or a middleware in front.
Protected(route) == route = "list"

\* The outcome of a request to an admin route: the 401 of the credential
\* check where the route has one, the handler's outcome otherwise.
Gate(route, auth, eff) ==
    IF Protected(route) /\ AuthCheck(auth) # "ok"
    THEN Effect(FALSE, eff.doc, Reply(route, 401, AuthCheck(auth)))
    ELSE eff

\* Mutant: a handler may start while another is between its read and its
\* write, as it could if the file were read with an awaited call.
Interleaved(s) == TRUE

\* No other handler invocation is between its readData and its writeData:
\* readFileSync and writeFileSync block, and no handler awaits anything, so
\* Node runs each handler to its end before it dispatches the next request.
RunToCompletion(s) == \A o \in Slots \ {s} : ~inflight[o].busy

NoneInFlight == \A s \in Slots : ~inflight[s].busy

RequestNow(route, ip, body, id, auth) == RequestAt(route, ip, body, id, auth, now)

\* POST /api/inquiry, behind apiLimiter.
Submit(ip, body) ==
    LET admitted == Admits(rateLimitStore, ip, now)
        eff == IF admitted THEN SubmitEffect(ReadData, body, now)
               ELSE Effect(FALSE, ReadData, TooMany)
    IN  /\ NoneInFlight
        /\ eff.write => ReadData.lastId < MaxInq
        /\ rateLimitStore' = Limited(rateLimitStore, ip, now)
        /\ hist' = IF admitted THEN [hist EXCEPT ![ip] = Append(@, now)] ELSE hist
        /\ denied' = IF admitted THEN denied ELSE [denied EXCEPT ![ip] = @ \cup {now}]
        /\ Handle(RequestNow("submit", ip, body, <<>>, Undef), eff)
        /\ UNCHANGED <<now, inflight>>

\* PUT /api/admin/inquiries/:id
Update(idParam, body, auth) ==
    /\ NoneInFlight
    /\ Handle(RequestNow("update", "", body, idParam, auth),
              Gate("update", auth, UpdateEffect(ReadData, idParam, body, now)))
    /\ UNCHANGED <<rateLimitStore, now, inflight, hist, denied>>

\* DELETE /api/admin/inquiries/:id
Delete(idParam, auth) ==
    /\ NoneInFlight
    /\ Handle(RequestNow("delete", "", NoBody, idParam, auth),
              Gate("delete", auth, DeleteEffect(ReadData, idParam)))
    /\ UNCHANGED <<rateLimitStore, now, inflight, hist, denied>>

\* GET /api/admin/inquiries
List(auth) ==
    /\ NoneInFlight
    /\ Handle(RequestNow("list", "", NoBody, <<>>, auth),
              Gate("list", auth, ListEffect(ReadData, auth)))
    /\ UNCHANGED <<rateLimitStore, now, inflight, hist, denied>>

\* GET /api/admin/stats
Stats(auth) ==
    /\ NoneInFlight
    /\ Handle(RequestNow("stats", "", NoBody, <<>>, auth),
              Gate("stats", auth, StatsEffect(ReadData, now)))
    /\ UNCHANGED <<rateLimitStore, now, inflight, hist, denied>>

\* GET / and GET /api/health
Health ==
    /\ NoneInFlight
    /\ Handle(RequestNow("health", "", NoBody, <<>>, Undef), HealthEffect(ReadData))
    /\ UNCHANGED <<rateLimitStore, now, inflight, hist, denied>>

\* Time passes.
Tick(t) ==
    /\ t > now
    /\ now' = t
    /\ UNCHANGED <<file, rateLimitStore, env, inflight>>
    /\ UNCHANGED obsVars
    /\ UNCHANGED histVars

\* The calls the limiter admitted so far, over all clients.
AdmittedCalls == Len(hist["10.0.0.1"]) + Len(hist["10.0.0.2"])

\* The store-centred environment: every route, a few calls through the limiter.
Next ==
    \/ \E body \in SubmitBodies :
          AdmittedCalls < MaxCalls /\ Submit("10.0.0.1", body)
    \/ \E idParam \in IdParams, body \in UpdateBodies : Update(idParam, body, Undef)
    \/ \E idParam \in IdParams : Delete(idParam, Undef)
    \/ \E auth \in {GoodAuth, Undef} : List(auth)
    \/ Stats(Undef)
    \/ Health
    \/ \E t \in {StartMs + WindowMs + 1000} : Tick(t)

Spec == Init /\ [][Next]_vars

\* ------------------------------------------------------------------------
\* Properties of the store-centred specification
\* ------------------------------------------------------------------------

\* The document the last request found in the file.
PreDoc == IF pre.kind = "doc" THEN pre.doc ELSE EmptyDoc

NoRepeats(seq) == \A i, j \in 1..Len(seq) : i # j => seq[i] # seq[j]

\* C1: from the empty document, after any sequence of submit, update and
\* delete requests, lastId is at least every id present, the ids present
\* are distinct, and no id returned with a 201 is ever returned again, also
\* after its inquiry was deleted.
C1_IdsNeverReused ==
    LET doc == ReadData
    IN  /\ \A i \in 1..Len(doc.inquiries) : doc.inquiries[i].id <= doc.lastId
        /\ NoRepeats([i \in 1..Len(doc.inquiries) |-> doc.inquiries[i].id])
        /\ NoRepeats(issued)
        /\ \A i \in 1..Len(issued) : issued[i] <= doc.lastId

\* An inquiry was created after the one created before it was deleted.
C1_Witness ==
    /\ resp.route = "submit" /\ resp.status = 201
    /\ Len(issued) = 2
    /\ issued[1] \in deleted
    /\ ReadData.inquiries # <<>>

\* C2: a submission answered 201 returns the lastId the file held before
\* the request plus 1, and the file holds the returned id as lastId after.
C2_ReturnedId ==
    (resp.route = "submit" /\ resp.status = 201) =>
        /\ resp.id = PreDoc.lastId + 1
        /\ ReadData.lastId = resp.id

\* A second inquiry was accepted.
C2_Witness ==
    /\ resp.route = "submit" /\ resp.status = 201
    /\ PreDoc.lastId = 1
    /\ resp.id = 2

\* C7: an update of an id that is not present is answered 404 and does not
\* rewrite the file; an update of an id that is present keeps the inquiry's
\* status when only notes is supplied, keeps its notes when only status is
\* supplied, and leaves every other inquiry and lastId as they were.
C7_UpdateFrame ==
    (req.route = "update") =>
        LET n == IdOf(req.id)
            before == PreDoc
            after == ReadData
        IN  IF n \notin Ids(before)
            THEN resp.status = 404 /\ ~wrote /\ file = pre
            ELSE /\ resp.status = 200
                 /\ after.lastId = before.lastId
                 /\ Len(after.inquiries) = Len(before.inquiries)
                 /\ \A i \in 1..Len(before.inquiries) :
                       LET old == before.inquiries[i]
                           new == after.inquiries[i]
                       IN  IF old.id # n THEN new = old
                           ELSE /\ new.id = n
                                /\ (req.body.status.t = "undefined"
                                      /\ req.body.notes.t # "undefined")
                                     => new.status = old.status
                                /\ (req.body.notes.t = "undefined"
                                      /\ req.body.status.t # "undefined")
                                     => new.notes = old.notes

\* Only notes was supplied for one of two inquiries, whose status had been
\* changed before.
C7_Witness ==
    /\ req.route = "update" /\ resp.status = 200
    /\ req.body.status.t = "undefined" /\ req.body.notes.t # "undefined"
    /\ Len(ReadData.inquiries) = 2
    /\ resp.inquiry[1].status = Str(<<"contacted">>)

\* C8: deleting an id that is present is answered 200 and removes exactly
\* that inquiry; deleting an id that is not present (any more) is answered
\* 404 without a write; a deleted id is never present again, so the second
\* delete of an id is a 404.
C8_DeleteTwice ==
    /\ deleted \cap Ids(ReadData) = {}
    /\ (req.route = "delete") =>
          LET n == IdOf(req.id)
              before == PreDoc
              after == ReadData
          IN  IF n \in Ids(before)
              THEN /\ resp.status = 200 /\ wrote
                   /\ after.inquiries = SelectSeq(before.inquiries, LAMBDA q : q.id # n)
                   /\ Len(after.inquiries) = Len(before.inquiries) - 1
                   /\ after.lastId = before.lastId
              ELSE resp.status = 404 /\ ~wrote /\ file = pre

\* The id of an earlier successful delete was deleted again.
C8_Witness ==
    /\ req.route = "delete" /\ resp.status = 404
    /\ IdOf(req.id) \in deleted

\* C9: an authenticated listing holds exactly the inquiries accepted with a
\* 201 and not deleted since, each once and with the status the latest
\* successful update gave it; no deleted inquiry is listed.
C9_ListingMatchesHistory ==
    (req.route = "list" /\ resp.status = 200) =>
        LET listed == resp.inquiries
        IN  /\ {listed[i].id : i \in 1..Len(listed)} = DOMAIN expected
            /\ Len(listed) = Cardinality(DOMAIN expected)
            /\ \A i \in 1..Len(listed) : listed[i].status = expected[listed[i].id]
            /\ \A i \in 1..Len(listed) : listed[i].id \notin deleted
            /\ DOMAIN expected = {issued[i] : i \in 1..Len(issued)} \ deleted

\* A listing after a delete that shows an inquiry with an updated status.
C9_Witness ==
    /\ req.route = "list" /\ resp.status = 200
    /\ deleted # {}
    /\ \E i \in 1..Len(resp.inquiries) :
          resp.inquiries[i].status = Str(<<"contacted">>)

\* The inquiry of a document with the given id (ids are distinct).
WithId(doc, n) ==
    doc.inquiries[CHOOSE i \in 1..Len(doc.inquiries) : doc.inquiries[i].id = n]

\* C17: a successful update sets notes to the value of the request's notes
\* field whenever the field is present, null and the empty string
\* included, and keeps the old notes only when the field is absent; it
\* changes status only to a value the request supplies, and keeps the old
\* status when the request supplies none.
C17_NotesByPresence ==
    (req.route = "update" /\ resp.status = 200) =>
        LET old == WithId(PreDoc, IdOf(req.id))
            new == WithId(ReadData, IdOf(req.id))
            body == req.body
        IN  /\ body.notes.t # "undefined" => new.notes = body.notes
            /\ body.notes.t = "undefined" => new.notes = old.notes
            /\ new.status # old.status =>
                  body.status.t # "undefined" /\ new.status = body.status
            /\ body.status.t = "undefined" => new.status = old.status
            /\ (body.status.t = "string" /\ body.status.s # <<>>) =>
                  new.status = body.status

\* Notes "call back" were replaced by an explicit null, and the status
\* "contacted" set before was kept.
C17_Witness ==
    /\ req.route = "update" /\ resp.status = 200
    /\ req.body.notes = Null /\ req.body.status = Undef
    /\ WithId(PreDoc, IdOf(req.id)).notes = Str(<<"call back">>)
    /\ WithId(ReadData, IdOf(req.id)).notes = Null
    /\ WithId(ReadData, IdOf(req.id)).status = Str(<<"contacted">>)

\* ------------------------------------------------------------------------
\* The server started on a data file that already exists
\* ------------------------------------------------------------------------

DayMs == 24 * 60 * 60 * 1000

\* created_at of the records of an existing file: 8 days, 7 days and 1 day
\* before the server starts.
StoredTimes == {StartMs - 8 * DayMs, StartMs - WeekMs, StartMs - DayMs}

StoredStatuses == {Str(<<"new">>), Str(<<"contacted">>), Str(<<"booked">>)}

\* An inquiry as the submit handler stored it.
StoredTemplate == JsonInquiry(NewInquiry(0, ValidBody1, Phone10, 0))

\* The inquiry with id i of an existing file: stored at instant t, its
\* status as set since.
StoredInquiry(i, t, status) ==
    [StoredTemplate EXCEPT !.id = i, !.status = status,
                           !.created_at = ToISOString(t),
                           !.updated_at = ToISOString(t)]

\* An existing file's documents: up to most inquiries with ids in append
\* order, and created_at and status in any arrangement.
DocsOf(times, statuses, most) ==
    UNION {
        {[inquiries |-> [i \in 1..n |-> StoredInquiry(i, at[i], st[i])],
          lastId |-> n] :
            at \in [1..n -> times], st \in [1..n -> statuses]}
        : n \in 0..most}

\* The server started on a data file holding one of the given documents
\* (initDatabase() leaves an existing data file as it is), in one of the
\* given environments.
InitIn(docs, envs) ==
    /\ \E doc \in docs : file = Written(doc)
    /\ rateLimitStore = << >>
    /\ now = StartMs
    /\ env \in envs
    /\ inflight = [s \in Slots |-> Idle]
    /\ req = NoRequest
    /\ resp = NoReply
    /\ pre = file
    /\ wrote = FALSE
    /\ issued = <<>>
    /\ deleted = {}
    /\ expected = << >>
    /\ rejectMsgs = {}
    /\ hist = [ip \in IPs |-> <<>>]
    /\ denied = [ip \in IPs |-> {}]

InitWith(docs) == InitIn(docs, {NoEnv})

InitAny == InitWith(DocsOf(StoredTimes, StoredStatuses, MaxStored))

\* The admin's read-only routes, with every Authorization header.
NextAny ==
    \/ \E auth \in AuthHeaders : List(auth)
    \/ Stats(Undef)
    \/ \E t \in {StartMs + WindowMs + 1000} : Tick(t)

SpecAny == InitAny /\ [][NextAny]_vars

\* C6: every rejected attempt on the listing route (missing header, other
\* scheme, wrong username, wrong password) is answered with the same error
\* message: the 401 responses seen so far carry at most one message.
C6_SameRejection == Cardinality(rejectMsgs) <= 1

SameBag(a, b) ==
    /\ Len(a) = Len(b)
    /\ \A i \in 1..Len(a) :
          Cardinality({j \in 1..Len(a) : a[j] = a[i]})
            = Cardinality({j \in 1..Len(b) : b[j] = a[i]})

\* C10: an authenticated listing returns all stored inquiries, most recent
\* created_at first, whatever their order in the file.
C10_ListingNewestFirst ==
    (req.route = "list" /\ resp.status = 200) =>
        /\ SameBag(resp.inquiries, ReadData.inquiries)
        /\ \A i, j \in 1..Len(resp.inquiries) :
              i < j => DateParse(resp.inquiries[i].created_at)
                         >= DateParse(resp.inquiries[j].created_at)

\* Three records stored in the order t2, t3, t1 are listed t3, t2, t1.
C10_Witness ==
    /\ req.route = "list" /\ resp.status = 200
    /\ Len(ReadData.inquiries) = 3
    /\ DateParse(ReadData.inquiries[3].created_at)
         < DateParse(ReadData.inquiries[1].created_at)
    /\ DateParse(ReadData.inquiries[1].created_at)
         < DateParse(ReadData.inquiries[2].created_at)
    /\ resp.inquiries = <<ReadData.inquiries[2], ReadData.inquiries[1],
                          ReadData.inquiries[3]>>

\* ------------------------------------------------------------------------
\* The limiter-centred specification: one client fills its window
\* ------------------------------------------------------------------------

\* The bodies posted while the window fills: none of them is stored.
LimiterBodies ==
    {NoBody, [ValidBody1 EXCEPT !.travelers = Undef],
     [ValidBody2 EXCEPT !.name = Str(<<>>), !.phone = Num(98765)]}

\* One client posts at will; a second one posts a few times.
NextLimiter ==
    \/ \E body \in LimiterBodies : Submit("10.0.0.1", body)
    \/ \E body \in LimiterBodies :
          Len(hist["10.0.0.2"]) < MaxCalls /\ Submit("10.0.0.2", body)
    \/ \E t \in ClockPoints : Tick(t)

SpecLimiter == Init /\ [][NextLimiter]_vars

\* The calls of the last request's client that the limiter admitted before
\* that request.
PriorCalls ==
    LET h == hist[req.ip]
    IN  IF resp.status # 429 THEN SubSeq(h, 1, Len(h) - 1) ELSE h

\* How many of them lie in the 60 s before the last request.
PriorInWindow ==
    Cardinality({i \in 1..Len(PriorCalls) : req.at - PriorCalls[i] < WindowMs})

\* C3: a call of a client with fewer than 30 admitted calls in the 60 s
\* before it is admitted (so the first 30 of a window are); a call with 30
\* admitted calls in those 60 s is answered 429 (the 31st of a window is);
\* and a call is rejected only while the 30th most recent admitted call is
\* less than 61 s old: once 61 s have passed since the first call of a full
\* window, the next call is admitted.
C3_WindowOfThirty ==
    (req.route = "submit") =>
        /\ PriorInWindow < RateLimit => resp.status # 429
        /\ PriorInWindow >= RateLimit => resp.status = 429
        /\ resp.status = 429 =>
              /\ Len(PriorCalls) >= RateLimit
              /\ req.at - PriorCalls[Len(PriorCalls) - RateLimit + 1] < WindowMs + 1000

\* The 31st admitted call of a client: 61 s after its first, with the 30
\* before it made inside the first call's window.
C3_Witness ==
    /\ req.route = "submit" /\ resp.status # 429
    /\ Len(hist[req.ip]) = RateLimit + 1
    /\ hist[req.ip][RateLimit] < hist[req.ip][1] + WindowMs
    /\ req.at = hist[req.ip][1] + WindowMs + 1000

\* A required field of the body is undefined, null, empty or zero.
LacksRequired(body) ==
    \E v \in {body.name, body.phone, body.travelers, body.destination} : ~Truthy(v)

\* C5 as stated: a submission that lacks a required field is always
\* answered 400.
C5_MissingAlways400 ==
    (req.route = "submit" /\ LacksRequired(req.body)) => resp.status = 400

\* C5, amended: a submission that lacks a required field is answered 400
\* "Missing required fields" when the limiter admits it, and 429 when the
\* client has 30 admitted calls in the 60 s before it; it is never stored.
C5_Missing400Unless429 ==
    (req.route = "submit" /\ LacksRequired(req.body)) =>
        /\ ~wrote /\ file = pre
        /\ IF PriorInWindow < RateLimit
           THEN resp.status = 400 /\ resp.error = "Missing required fields"
           ELSE resp.status = 429

\* A submission without travelers was answered 400 by a limiter that has
\* already admitted calls of that client.
C5_Witness ==
    /\ req.route = "submit" /\ resp.status = 400
    /\ req.body.travelers.t = "undefined" /\ Truthy(req.body.name)
    /\ Len(hist[req.ip]) > 1

\* seq is the end of whole.
IsSuffix(seq, whole) ==
    /\ Len(seq) <= Len(whole)
    /\ seq = SubSeq(whole, Len(whole) - Len(seq) + 1, Len(whole))

\* C16: a rejected call is not recorded.  The window the limiter keeps for
\* a client holds instants of admitted calls only (it is the end of the
\* history of the client's admitted calls, at most 30 of them), a call
\* answered 429 leaves it holding exactly the admitted calls of the 60 s
\* before it, and however many calls were rejected, a call is admitted as
\* soon as fewer than 30 admitted calls lie in the 60 s before it.
C16_RejectedNotRecorded ==
    /\ \A ip \in DOMAIN rateLimitStore :
          /\ IsSuffix(rateLimitStore[ip], hist[ip])
          /\ Len(rateLimitStore[ip]) <= RateLimit
    /\ (req.route = "submit" /\ resp.status = 429) =>
          /\ req.at \in denied[req.ip]
          /\ rateLimitStore[req.ip]
                = SelectSeq(hist[req.ip], LAMBDA time : req.at - time < WindowMs)
    /\ (req.route = "submit" /\ denied[req.ip] # {}) =>
          (resp.status = 429 <=> PriorInWindow >= RateLimit)

\* A client filled its window at the start, was rejected then and again
\* just before the end of the window, and is admitted 61 s after the start.
C16_Witness ==
    /\ req.route = "submit" /\ resp.status # 429
    /\ req.at = StartMs + WindowMs + 1000
    /\ denied[req.ip] = {StartMs, StartMs + WindowMs - 1}
    /\ Len(hist[req.ip]) = RateLimit + 1
    /\ rateLimitStore[req.ip] = <<req.at>>

\* ------------------------------------------------------------------------
\* The mutating handlers in two steps: readData, then writeData
\* ------------------------------------------------------------------------

\* A mutating handler reaches its readData() and holds the document.
Begin(s, request) ==
    /\ ~inflight[s].busy
    /\ RunToCompletion(s)
    /\ inflight' = [inflight EXCEPT ![s] =
                      [busy |-> TRUE, req |-> request, snap |-> ReadData]]
    /\ UNCHANGED <<file, now, env>>
    /\ UNCHANGED obsVars
    /\ UNCHANGED <<issued, deleted, expected, rejectMsgs, denied>>

\* POST /api/inquiry up to readData(): the limiter admitted the call and the
\* body passed validation.
BeginSubmit(s, ip, body) ==
    /\ Admits(rateLimitStore, ip, now)
    /\ SubmitEffect(ReadData, body, now).write
    /\ ReadData.lastId < MaxInq
    /\ rateLimitStore' = Limited(rateLimitStore, ip, now)
    /\ hist' = [hist EXCEPT ![ip] = Append(@, now)]
    /\ Begin(s, RequestNow("submit", ip, body, <<>>, Undef))

\* PUT /api/admin/inquiries/:id up to readData().
BeginUpdate(s, idParam, body) ==
    /\ Begin(s, RequestNow("update", "", body, idParam, Undef))
    /\ UNCHANGED <<rateLimitStore, hist>>

\* DELETE /api/admin/inquiries/:id up to readData().
BeginDelete(s, idParam) ==
    /\ Begin(s, RequestNow("delete", "", NoBody, idParam, Undef))
    /\ UNCHANGED <<rateLimitStore, hist>>

\* The rest of the handler, on the document it read.
Finish(s) ==
    LET r == inflight[s].req
        snap == inflight[s].snap
        eff == CASE r.route = "submit" -> SubmitEffect(snap, r.body, r.at)
                 [] r.route = "update" -> UpdateEffect(snap, r.id, r.body, r.at)
                 [] OTHER -> DeleteEffect(snap, r.id)
    IN  /\ inflight[s].busy
        /\ Handle(r, eff)
        /\ inflight' = [inflight EXCEPT ![s] = Idle]
        /\ UNCHANGED <<rateLimitStore, now, hist, denied>>

NextRace ==
    \/ \E s \in Slots, body \in {ValidBody1} :
          AdmittedCalls < MaxCalls /\ BeginSubmit(s, "10.0.0.1", body)
    \/ \E s \in Slots, idParam \in IdParams, body \in UpdateBodies :
          BeginUpdate(s, idParam, body)
    \/ \E s \in Slots, idParam \in IdParams : BeginDelete(s, idParam)
    \/ \E s \in Slots : Finish(s)

SpecRace == Init /\ [][NextRace]_vars

StatsStatuses == StoredStatuses \cup {Str(<<"cancelled">>)}

InitStats == InitWith(DocsOf(StoredTimes, StatsStatuses, MaxStored))

\* Statistics are asked for at the start, one millisecond later and a day
\* later.
NextStats ==
    \/ Stats(Undef)
    \/ \E t \in {StartMs + 1, StartMs + DayMs} : Tick(t)

SpecStats == InitStats /\ [][NextStats]_vars

\* How many of the stored inquiries have exactly this status.
WithStatus(inquiries, status) ==
    Cardinality({i \in 1..Len(inquiries) : inquiries[i].status = status})

\* C11: whatever the file holds, the statistics are: total, the number of
\* stored inquiries; new, contacted and booked, the number of inquiries whose
\* status is exactly that word; thisWeek, the number of inquiries created at
\* or after the instant 7 days before the request.
C11_StatsCounts ==
    (req.route = "stats") =>
        LET stored == ReadData.inquiries
        IN  /\ resp.status = 200
            /\ resp.stats.total = Len(stored)
            /\ resp.stats.new = WithStatus(stored, Str(<<"new">>))
            /\ resp.stats.contacted = WithStatus(stored, Str(<<"contacted">>))
            /\ resp.stats.booked = WithStatus(stored, Str(<<"booked">>))
            /\ resp.stats.thisWeek =
                  Cardinality({i \in 1..Len(stored) :
                      DateParse(stored[i].created_at) + WeekMs >= req.at})

\* Records with statuses new, new, booked, the first created 8 days ago and
\* the second 1 day ago: the counts are 3, 2, 0, 1 and thisWeek leaves the
\* first record out.
C11_Witness ==
    /\ req.route = "stats"
    /\ Len(ReadData.inquiries) = 3
    /\ [i \in 1..3 |-> ReadData.inquiries[i].status]
         = <<Str(<<"new">>), Str(<<"new">>), Str(<<"booked">>)>>
    /\ DateParse(ReadData.inquiries[1].created_at) = req.at - 8 * DayMs
    /\ DateParse(ReadData.inquiries[2].created_at) = req.at - DayMs
    /\ DateParse(ReadData.inquiries[3].created_at) = req.at - DayMs
    /\ resp.stats = [total |-> 3, new |-> 2, contacted |-> 0, booked |-> 1,
                     thisWeek |-> 2]

\* ------------------------------------------------------------------------
\* The data file damaged while the server runs
\* ------------------------------------------------------------------------

\* Something outside the server removes the data file, overwrites it or
\* takes its permissions away.
Damage(kind) ==
    /\ file.kind = "doc"
    /\ file' = Broken(kind)
    /\ UNCHANGED <<rateLimitStore, now, env, inflight>>
    /\ UNCHANGED obsVars
    /\ UNCHANGED histVars

NextBroken ==
    \/ \E body \in {ValidBody1, [ValidBody1 EXCEPT !.phone = Str(PhoneShort)]} :
          AdmittedCalls < MaxCalls + 2 /\ Submit("10.0.0.1", body)
    \/ \E auth \in {GoodAuth, Undef} : List(auth)
    \/ Stats(Undef)
    \/ \E kind \in BrokenKinds : Damage(kind)

SpecBroken == Init /\ [][NextBroken]_vars

\* C12: a request that finds the data file missing, unreadable or corrupt
\* is served as on the empty document: an authenticated listing is answered
\* 200 with no inquiries, statistics are answered 200 with every count 0,
\* and a valid submission is answered 201.
C12_SilentRecovery ==
    (pre.kind # "doc") =>
        /\ (req.route = "list" /\ AuthCheck(req.auth) = "ok") =>
              resp.status = 200 /\ resp.inquiries = <<>>
        /\ (req.route = "stats") =>
              resp.status = 200 /\ resp.stats = NoStats
        /\ (req.route = "submit" /\ req.body = ValidBody1) => resp.status = 201

\* ------------------------------------------------------------------------
\* The credential check under several configurations
\* ------------------------------------------------------------------------

\* process.env of a deployment: nothing set, both secrets set (the password
\* holds a colon), an empty ADMIN_PASS.
Envs ==
    {NoEnv,
     [ADMIN_USER |-> Str(<<"admin">>), ADMIN_PASS |-> Str(<<"pa", ":", "ss">>)],
     [ADMIN_USER |-> Undef, ADMIN_PASS |-> Str(<<>>)]}

\* Authorization headers whose payload holds no colon, one or several.
ColonHeaders ==
    AuthHeaders
    \cup {Str(<<"Basic", " ", "TWVodWwyMDAyMDpOaW5qYTIwMDJAOmV4dHJh">>),
          Str(<<"Basic", " ", "YWRtaW46cGE6c3M=">>),
          Str(<<"Basic", " ", "YWRtaW46cGE=">>),
          Str(<<"Basic", " ", "Og==">>),
          Str(<<"basic", " ", "TWVodWwyMDAyMDpOaW5qYTIwMDJA">>)}

\* An existing data file with at most one record, and any of the
\* configurations.
InitAuth ==
    InitIn(DocsOf(StoredTimes, StoredStatuses, 1), Envs)

NextAuth == \E auth \in ColonHeaders : List(auth)

SpecAuth == InitAuth /\ [][NextAuth]_vars

\* The header names the Basic scheme.
IsBasic(auth) == auth.t = "string" /\ StartsWith(auth.s, <<"Basic", " ">>)

\* The text the client encoded in the header, "username:password".
SentPayload(auth) == B64Decode(SubSeq(auth.s, 3, Len(auth.s)))

\* The position of the first colon of a text, 0 when it has none.
FirstColon(cs) ==
    LET at == {i \in 1..Len(cs) : cs[i] = ":"}
    IN  IF at = {} THEN 0 ELSE CHOOSE i \in at : \A j \in at : i <= j

\* The username and the password the client sent: what comes before the
\* first colon of the payload, and everything after it.
SentUser(auth) == SubSeq(SentPayload(auth), 1, FirstColon(SentPayload(auth)) - 1)

SentPass(auth) ==
    SubSeq(SentPayload(auth), FirstColon(SentPayload(auth)) + 1,
           Len(SentPayload(auth)))

\* The client sent the configured username and the configured password.
SentSecrets(auth) ==
    /\ IsBasic(auth)
    /\ FirstColon(SentPayload(auth)) # 0
    /\ Str(SentUser(auth)) = AdminUser
    /\ Str(SentPass(auth)) = AdminPass

\* C13: the listing returns inquiry data only to a request whose header is
\* of the Basic scheme and whose username and password both equal the
\* configured secrets; any other request is answered 401 without inquiry
\* data.
C13_OnlyConfigured ==
    (req.route = "list") =>
        /\ resp.status = 200 => SentSecrets(req.auth)
        /\ ~SentSecrets(req.auth) => resp.status = 401 /\ resp.inquiries = <<>>

\* C18: the payload is split at its first colon only and the password,
\* everything after that colon, is compared in full with the configured
\* password: a Basic request is let in exactly when it sent the configured
\* secrets, so a password that continues after the configured one with a
\* colon and more text is rejected, and a configured password that holds a
\* colon lets its owner in.
C18_FirstColonSplit ==
    (req.route = "list" /\ IsBasic(req.auth)) =>
        (resp.status = 200 <=> SentSecrets(req.auth))

\* ------------------------------------------------------------------------
\* Submissions with many phones
\* ------------------------------------------------------------------------

\* A phone of n digits.
PhoneOfLen(n) == [i \in 1..n |-> Digits[(i % 10) + 1]]

\* The phone field of the bodies posted: texts around the limits of the
\* pattern, with white space, with other symbols, and a JSON number.
Phones ==
    {Str(PhoneShort), Str(PhoneSpaced), Str(Phone10),
     Str(PhoneOfLen(9)), Str(PhoneOfLen(15)), Str(PhoneOfLen(16)),
     Str(<<"+">> \o PhoneOfLen(9)), Str(<<"+">> \o PhoneOfLen(15)),
     Str(<<"+">> \o PhoneOfLen(16)), Str(<<"+", "+">> \o PhoneOfLen(10)),
     Str(PhoneOfLen(5) \o <<"+">> \o PhoneOfLen(5)),
     Str(PhoneOfLen(10) \o <<"x">>),
     Str(<<" ", "\t">> \o PhoneOfLen(6) \o <<"\t">> \o PhoneOfLen(6) \o <<" ">>),
     Str(<<" ", " ">>),
     Num(98765)}

PhoneBodies == {[ValidBody1 EXCEPT !.phone = phone] : phone \in Phones}

NextPhone ==
    \E body \in PhoneBodies :
        AdmittedCalls < MaxCalls + 1 /\ Submit("10.0.0.1", body)

SpecPhone == Init /\ [][NextPhone]_vars

\* A text without its white space.
NoWhitespace(cs) == SelectSeq(cs, LAMBDA c : c \notin {" ", "\t"})

\* An optional '+' and then 10 to 15 digits, nothing else.
WellFormedPhone(cs) ==
    \E plus \in {0, 1}, n \in PhoneMinDigits..PhoneMaxDigits :
        /\ Len(cs) = plus + n
        /\ plus = 1 => cs[1] = "+"
        /\ \A i \in (plus + 1)..Len(cs) :
              cs[i] \in {"0", "1", "2", "3", "4", "5", "6", "7", "8", "9"}

WrongAuth == Str(<<"Basic", " ", "TWVodWwyMDAyMDp3cm9uZw==">>)

\* No header, the right credentials, a wrong password.
AdminCallers == {Undef, GoodAuth, WrongAuth}

\* An existing file of new inquiries created a day before the start.
OpenDocs == DocsOf({StartMs - DayMs}, {StatusNew}, MaxStored)

InitOpen == InitWith(OpenDocs)

NextOpen ==
    \/ \E idParam \in IdParams, body \in UpdateBodies, auth \in AdminCallers :
          Update(idParam, body, auth)
    \/ \E idParam \in IdParams, auth \in AdminCallers : Delete(idParam, auth)
    \/ \E auth \in AdminCallers : Stats(auth)

SpecOpen == InitOpen /\ [][NextOpen]_vars

\* C15: update, delete and statistics requests are served whatever their
\* Authorization header, none is answered 401: an update of a stored id is
\* answered 200 and written, a delete of a stored id is answered 200 and
\* removes the inquiry, and statistics are answered 200 with the counts of
\* the file, for a request without header or with wrong credentials as for
\* one with the right ones.
C15_NoCredentialCheck ==
    (req.route \in {"update", "delete", "stats"}) =>
        LET n == IdOf(req.id)
        IN  /\ resp.status # 401
            /\ (req.route = "update" /\ n \in Ids(PreDoc)) =>
                  /\ resp.status = 200 /\ wrote
                  /\ \E i \in 1..Len(ReadData.inquiries) :
                        /\ ReadData.inquiries[i] = resp.inquiry[1]
                        /\ resp.inquiry[1].id = n
                        /\ resp.inquiry[1].updated_at = ToISOString(req.at)
            /\ (req.route = "delete" /\ n \in Ids(PreDoc)) =>
                  /\ resp.status = 200 /\ wrote
                  /\ Ids(ReadData) = Ids(PreDoc) \ {n}
            /\ (req.route = "stats") =>
                  /\ resp.status = 200
                  /\ resp.stats.total = Len(PreDoc.inquiries)
                  /\ resp.stats.new = WithStatus(PreDoc.inquiries, StatusNew)

\* A request with a wrong password deleted an inquiry whose status an
\* earlier request had changed.
C15_Witness ==
    /\ req.route = "delete" /\ req.auth = WrongAuth
    /\ resp.status = 200
    /\ \E i \in 1..Len(PreDoc.inquiries) :
          /\ PreDoc.inquiries[i].id = IdOf(req.id)
          /\ PreDoc.inquiries[i].status = Str(<<"contacted">>)
    /\ IdOf(req.id) \notin Ids(ReadData)

\* ------------------------------------------------------------------------
\* Every route, with a client close to its limit
\* ------------------------------------------------------------------------

\* The limiter after one client posted RateLimit - 1 times at the start.
NearLimit == [i \in 1..(RateLimit - 1) |-> StartMs]

\* The file holds at most one inquiry, and one client has used all but one
\* call of its window, with bodies that were refused.
InitFrame ==
    /\ \E doc \in DocsOf({StartMs - DayMs}, {StatusNew}, 1) : file = Written(doc)
    /\ rateLimitStore = [ip \in {"10.0.0.1"} |-> NearLimit]
    /\ now = StartMs
    /\ env = NoEnv
    /\ inflight = [s \in Slots |-> Idle]
    /\ req = NoRequest
    /\ resp = NoReply
    /\ pre = file
    /\ wrote = FALSE
    /\ issued = <<>>
    /\ deleted = {}
    /\ expected = << >>
    /\ rejectMsgs = {}
    /\ hist = [ip \in IPs |-> IF ip = "10.0.0.1" THEN NearLimit ELSE <<>>]
    /\ denied = [ip \in IPs |-> {}]

NextFrame ==
    \/ \E body \in {ValidBody1, NoBody, [ValidBody1 EXCEPT !.phone = Str(PhoneShort)]} :
          AdmittedCalls < RateLimit + MaxCalls /\ Submit("10.0.0.1", body)
    \/ \E idParam \in IdParams :
          Update(idParam, [NoBody EXCEPT !.status = Str(<<"contacted">>)], Undef)
    \/ \E idParam \in IdParams : Delete(idParam, Undef)
    \/ \E auth \in {GoodAuth, Undef} : List(auth)
    \/ Stats(Undef)
    \/ Health
    \/ \E t \in {StartMs + WindowMs + 1000} : Tick(t)

SpecFrame == InitFrame /\ [][NextFrame]_vars

\* The last request changed the store: a submission answered 201, an
\* update or a delete answered 200.
Mutated ==
    \/ req.route = "submit" /\ resp.status = 201
    \/ req.route \in {"update", "delete"} /\ resp.status = 200

\* C19: a request that is not a successful mutation (a submission answered
\* 400 or 429, an update or delete answered 404, a listing answered 200 or
\* 401, a statistics request, a health check) does not call writeData and
\* leaves the file as it was; the order the listing sorts into is never
\* stored, the file keeps its inquiries in the order they were appended.
C19_FailuresDoNotWrite ==
    /\ (req.route # "none" /\ ~Mutated) => ~wrote /\ file = pre
    /\ (req.route = "submit" /\ resp.status \in {400, 429}) => ~wrote /\ file = pre
    /\ (req.route \in {"update", "delete"} /\ resp.status = 404) => ~wrote /\ file = pre
    /\ (req.route \in {"list", "stats", "health"}) =>
          resp.status \in {200, 401} /\ ~wrote /\ file = pre
    /\ \A i, j \in 1..Len(ReadData.inquiries) :
          i < j => ReadData.inquiries[i].id < ReadData.inquiries[j].id

\* After a submission of the client was answered 429, a listing returned
\* two inquiries newest first while the file holds them oldest first.
C19_Witness ==
    /\ req.route = "list" /\ resp.status = 200
    /\ denied["10.0.0.1"] # {}
    /\ Len(resp.inquiries) = 2
    /\ resp.inquiries[1].id = 2 /\ resp.inquiries[2].id = 1
    /\ ReadData.inquiries[1].id = 1 /\ ReadData.inquiries[2].id = 2

====
